---- MODULE Spec2Model ----
(***************************************************************************)
(* Model of src/main.py: the UAE Transfer Pricing related-party assessment *)
(* tool.  A Streamlit script (main) collects two party profiles from       *)
(* widgets, and on the 'Analyze Relationship' button hands them to         *)
(* process_relationship_assessment, which obtains the cached LLM client    *)
(* (initialize_llm), formats the prompt, calls llm.predict_messages once   *)
(* and parses the reply with the five-field StructuredOutputParser.        *)
(***************************************************************************)
EXTENDS Integers, Sequences, FiniteSets, TLC

\* ---------------------------------------------------------------- bounds
\* Largest number of required fields a generated model reply may omit.
MaxMissing == 1
\* Largest number of fields beyond the five required ones in a reply.
MaxExtra == 1

\* ------------------------------------------------------- program constants
\* st.slider("Ownership Percentage", 0, 100, 0): minimum, maximum, default.
SliderMin == 0
SliderMax == 100
SliderDefault == 0

\* Options of the widgets, in the order the code lists them (the first one
\* is the value a selectbox returns before the user touches it).
PartyTypes == <<"Individual", "Company">>
ResidencyOptions == <<"UAE Resident", "Non-Resident">>
CompanyTypeOptions == <<"LLC", "Branch", "Free Zone Entity", "Other">>
FamilyOptions == <<"None", "Parent/Child", "Grandparent/Grandchild", "Sibling",
                   "Uncle/Aunt/Nephew/Niece", "First Cousin", "Other">>

\* The names of the five ResponseSchema objects given to
\* StructuredOutputParser.from_response_schemas, in that order.
Fields == <<"assessment", "relationship_type", "basis", "risk_level", "documentation">>

Range(s) == {s[i] : i \in 1..Len(s)}

\* Python's None and a dict, as tagged values.
None == [pytype |-> "NoneType"]
Dict(items) == [pytype |-> "dict", items |-> items]

\* ------------------------------------------------------------ model reply
\* The text of a model reply, as far as the parser reads it: body tells
\* whether the text holds no payload at all ("absent"), a payload that is
\* not JSON ("malformed"), or a JSON object whose members, in textual
\* order, are the <<key, value>> pairs of members.
ExtraKeys == <<"confidence", "notes">>
RiskValues == {"HIGH", "UNKNOWN"}
FieldValue(k, risk) == IF k = "risk_level" THEN risk ELSE "text of " \o k

RECURSIVE Members(_, _, _)
Members(i, present, risk) ==
    IF i > Len(Fields) THEN <<>>
    ELSE (IF Fields[i] \in present THEN << <<Fields[i], FieldValue(Fields[i], risk)>> >> ELSE <<>>)
         \o Members(i + 1, present, risk)

Extras(n) == [i \in 1..n |-> <<ExtraKeys[i], "extra value">>]

Reverse(s) == [i \in 1..Len(s) |-> s[Len(s) + 1 - i]]

\* Replies with all five fields: in schema order or reversed, with either
\* risk value, with and without extra fields.
CompleteReplies ==
    { [body |-> "object",
       members |-> IF rev THEN Reverse(Members(1, Range(Fields), risk) \o Extras(n))
                   ELSE Members(1, Range(Fields), risk) \o Extras(n)] :
        rev \in BOOLEAN, risk \in RiskValues, n \in 0..MaxExtra }

\* Replies that lack between one and MaxMissing of the five fields.
IncompleteReplies ==
    { [body |-> "object", members |-> Members(1, present, "HIGH") \o Extras(n)] :
        n \in 0..MaxExtra,
        present \in {S \in SUBSET Range(Fields) :
                        /\ S # Range(Fields)
                        /\ Cardinality(Range(Fields) \ S) <= MaxMissing} }

ObjectReplies == CompleteReplies \cup IncompleteReplies

Replies ==
    ObjectReplies \cup { [body |-> b, members |-> <<>>] : b \in {"absent", "malformed"} }

\* json.loads on an object: a dict of the members, the last of two members
\* with the same key winning.
LastIndex(members, k) ==
    CHOOSE i \in 1..Len(members) :
        /\ members[i][1] = k
        /\ \A j \in (i + 1)..Len(members) : members[j][1] # k

JsonLoads(members) ==
    [k \in {members[i][1] : i \in 1..Len(members)} |-> members[LastIndex(members, k)][2]]

\* A key check that forgets the fourth schema (risk_level).
FirstMissing_skips_risk_level(d) ==
    IF \A i \in 1..Len(Fields) : i = 4 \/ Fields[i] \in DOMAIN d THEN 0
    ELSE CHOOSE i \in 1..Len(Fields) :
            /\ i # 4
            /\ Fields[i] \notin DOMAIN d
            /\ \A j \in 1..(i - 1) : j = 4 \/ Fields[j] \in DOMAIN d

\* The first expected key, in schema order, that d lacks (0 when none).
FirstMissing(d) ==
    IF \A i \in 1..Len(Fields) : Fields[i] \in DOMAIN d THEN 0
    ELSE CHOOSE i \in 1..Len(Fields) :
            /\ Fields[i] \notin DOMAIN d
            /\ \A j \in 1..(i - 1) : Fields[j] \in DOMAIN d

\* A parser that also validates risk_level against HIGH, MEDIUM, LOW.
parse_strict_risk_level(text) ==
    IF text.body = "absent"
    THEN [ok |-> FALSE, value |-> None, error |-> "OutputParserException: no JSON payload found"]
    ELSE IF text.body = "malformed"
    THEN [ok |-> FALSE, value |-> None, error |-> "OutputParserException: invalid JSON"]
    ELSE LET d == JsonLoads(text.members)
             m == FirstMissing(d)
         IN IF m # 0
            THEN [ok |-> FALSE, value |-> None,
                  error |-> "OutputParserException: expected key " \o Fields[m]]
            ELSE IF d["risk_level"] \notin {"HIGH", "MEDIUM", "LOW"}
            THEN [ok |-> FALSE, value |-> None,
                  error |-> "OutputParserException: unexpected risk_level"]
            ELSE [ok |-> TRUE, value |-> Dict(d), error |-> ""]

\* output_parser.parse(text): locate the payload, decode it, require every
\* expected key, and return the decoded dict as it is.
parse(text) ==
    IF text.body = "absent"
    THEN [ok |-> FALSE, value |-> None, error |-> "OutputParserException: no JSON payload found"]
    ELSE IF text.body = "malformed"
    THEN [ok |-> FALSE, value |-> None, error |-> "OutputParserException: invalid JSON"]
    ELSE LET d == JsonLoads(text.members)
             m == FirstMissing(d)
         IN IF m # 0
            THEN [ok |-> FALSE, value |-> None,
                  error |-> "OutputParserException: expected key " \o Fields[m]]
            ELSE [ok |-> TRUE, value |-> Dict(d), error |-> ""]

\* ------------------------------------------------------------ Python values
\* Values held in the party dicts, tagged by their Python type.
PyStr(s) == [str |-> s]
PyBool(b) == [bool |-> b]
PyInt(n) == [int |-> n]
\* A value json.dumps cannot serialise (a set, an object, ...).
NonSerializable == [obj |-> "set"]

\* Truth value of a Python value (None and values of other types: falsy here).
Truthy(v) ==
    CASE "str" \in DOMAIN v -> v.str # ""
      [] "bool" \in DOMAIN v -> v.bool
      [] "int" \in DOMAIN v -> v.int # 0
      [] "pytype" \in DOMAIN v -> v.pytype = "dict" /\ DOMAIN v.items # {}
      [] OTHER -> FALSE

\* d.get(k)
Get(d, k) == IF k \in DOMAIN d THEN d[k] ELSE None

\* json.dumps of one value, and of a dict (key -> rendered text).
JsonValue(v) ==
    CASE "str" \in DOMAIN v -> "\"" \o v.str \o "\""
      [] "bool" \in DOMAIN v -> (IF v.bool THEN "true" ELSE "false")
      [] "int" \in DOMAIN v -> ToString(v.int)
      [] OTHER -> "null"

JsonSerializable(d) == \A k \in DOMAIN d : d[k] # NonSerializable

JsonDumps(d) == [k \in DOMAIN d |-> JsonValue(d[k])]

\* prompt.format_messages(user_input=..., format_instructions=...): the system
\* message with the parser's format instructions (which name the five
\* fields) and the human message with both serialised party dicts.
format_messages(p1, p2) ==
    [system |-> [text |-> "SYSTEM_PROMPT", format_instructions |-> Fields],
     human |-> [party1 |-> JsonDumps(p1), party2 |-> JsonDumps(p2)]]

\* ------------------------------------------------------------------ state
VARIABLES
    has_key,        \* "PPLX_API_KEY" in st.secrets
    debug,          \* st.secrets DEBUG is "true"
    llm_cached,     \* st.cache_resource holds the ChatOpenAI built by initialize_llm
    session,        \* widget key -> value, for the widgets of the page
    party1_details, \* main()'s dicts, as built by the latest script run
    party2_details,
    invoked,        \* who called process_relationship_assessment in this run
    args,           \* <<party1_details, party2_details>> of that call, or <<>>
    trace,          \* the calls the latest run made, in order
    sent_prompt,    \* messages handed to llm.predict_messages, or None
    response,       \* response.content of that call, or None
    result,         \* what process_relationship_assessment returned, or None
    shown,          \* elements the button handlers put on the page in this run
    run_status      \* "completed", "stopped" (st.stop) or "exception" (uncaught)

vars == <<has_key, debug, llm_cached, session, party1_details, party2_details,
          invoked, args, trace, sent_prompt, response, result, shown, run_status>>

Error(text, cause) == [kind |-> "error", text |-> text, detail |-> cause]
Write(kind, text) == [kind |-> kind, text |-> text, detail |-> ""]

\* ----------------------------------------------------------- initialize_llm
\* A factory that builds the client without looking the key up.
initialize_llm_without_key_check(ctor_ok) ==
    IF llm_cached
    THEN [status |-> "ok", shown |-> <<>>, cached |-> TRUE]
    ELSE IF ~ctor_ok
    THEN [status |-> "stop", cached |-> FALSE,
          shown |-> <<Error("Error initializing LLM: ", "ChatOpenAI constructor raised")>>]
    ELSE [status |-> "ok", shown |-> <<>>, cached |-> TRUE]

\* The cached factory of the LLM client.  A cached client is returned
\* without running the body; otherwise the key is looked up, and a missing
\* key or a failing ChatOpenAI constructor is reported with st.error and
\* ends the script run with st.stop() (StopException is not an Exception,
\* so neither except clause of the program catches it).
initialize_llm(ctor_ok) ==
    IF llm_cached
    THEN [status |-> "ok", shown |-> <<>>, cached |-> TRUE]
    ELSE IF ~has_key
    THEN [status |-> "stop", cached |-> FALSE,
          shown |-> <<Error("Perplexity API key not found. Please check your secrets configuration.", "")>>]
    ELSE IF ~ctor_ok
    THEN [status |-> "stop", cached |-> FALSE,
          shown |-> <<Error("Error initializing LLM: ", "ChatOpenAI constructor raised")>>]
    ELSE [status |-> "ok", shown |-> <<>>, cached |-> TRUE]

\* Exceptions llm.predict_messages raises, and a content without payload.
GatewayFailures == {"Timeout", "APIConnectionError"}
NoReply == [body |-> "absent", members |-> <<>>]

\* --------------------------------------------- process_relationship_assessment
Pipeline == <<"initialize_llm", "json.dumps", "format_messages", "predict_messages", "parse">>

\* An except clause that returns None without reporting the exception.
Caught_silently(cause, calls, sent, content, cached) ==
    [status |-> "returned", ret |-> None, trace |-> calls, sent |-> sent,
     response |-> content, cached |-> cached, shown |-> <<>>]

\* What the except clause does with an exception raised in the try block
\* after calls were made: one st.error with the exception's text, return None.
Caught(cause, calls, sent, content, cached) ==
    [status |-> "returned", ret |-> None, trace |-> calls, sent |-> sent,
     response |-> content, cached |-> cached,
     shown |-> <<Error("Error in processing assessment: ", cause)>>]

\* env: the behaviour of the environment during the call: ctor_ok (does
\* ChatOpenAI(...) construct), gateway ("ok" or the exception the call
\* raises), reply (the text of response.content).

\* A variant that calls the gateway a second time when the first call raises.
PredictAndParse_with_retry(env, formatted_prompt, cached) ==
    IF env.gateway # "ok"
    THEN Caught(env.gateway, SubSeq(Pipeline, 1, 4) \o <<"predict_messages">>,
                formatted_prompt, None, cached)
    ELSE LET parsed == parse(env.reply) IN
         IF ~parsed.ok
         THEN Caught(parsed.error, Pipeline, formatted_prompt, env.reply, cached)
         ELSE [status |-> "returned", ret |-> parsed.value, trace |-> Pipeline,
               sent |-> formatted_prompt, response |-> env.reply, cached |-> cached,
               shown |-> <<>>]

\* A variant that hands an empty content to the parser when the call raises.
PredictAndParse_parsing_after_failure(env, formatted_prompt, cached) ==
    LET parsed == parse(IF env.gateway # "ok" THEN NoReply ELSE env.reply) IN
    IF ~parsed.ok
    THEN Caught(parsed.error, Pipeline, formatted_prompt,
                IF env.gateway # "ok" THEN None ELSE env.reply, cached)
    ELSE [status |-> "returned", ret |-> parsed.value, trace |-> Pipeline,
          sent |-> formatted_prompt, response |-> env.reply, cached |-> cached,
          shown |-> <<>>]

\* response = llm.predict_messages(formatted_prompt)
\* return output_parser.parse(response.content)
PredictAndParse(env, formatted_prompt, cached) ==
    IF env.gateway # "ok"
    THEN Caught(env.gateway, SubSeq(Pipeline, 1, 4), formatted_prompt, None, cached)
    ELSE LET parsed == parse(env.reply) IN
         IF ~parsed.ok
         THEN Caught(parsed.error, Pipeline, formatted_prompt, env.reply, cached)
         ELSE [status |-> "returned", ret |-> parsed.value, trace |-> Pipeline,
               sent |-> formatted_prompt, response |-> env.reply, cached |-> cached,
               shown |-> <<>>]

process_relationship_assessment(p1, p2, env) ==
    LET llm == initialize_llm(env.ctor_ok) IN
    IF llm.status = "stop"
    THEN [status |-> "stopped", ret |-> None, trace |-> SubSeq(Pipeline, 1, 1),
          sent |-> None, response |-> None, cached |-> llm.cached, shown |-> llm.shown]
    ELSE IF ~(JsonSerializable(p1) /\ JsonSerializable(p2))
    THEN Caught("TypeError: Object is not JSON serializable",
                SubSeq(Pipeline, 1, 2), None, None, llm.cached)
    ELSE PredictAndParse(env, format_messages(p1, p2), llm.cached)


\* The environments of a call that differ in what the call observes.
Envs ==
    { [ctor_ok |-> FALSE, gateway |-> "ok", reply |-> NoReply] }
    \cup { [ctor_ok |-> TRUE, gateway |-> g, reply |-> NoReply] : g \in GatewayFailures }
    \cup { [ctor_ok |-> TRUE, gateway |-> "ok", reply |-> t] : t \in Replies }

\* The environments of llm.predict("test"), whose reply is not read.
TestEnvs == { e \in Envs : e.reply = NoReply }

\* ------------------------------------------------------------------ main()
EmptyDict == [k \in {} |-> None]

\* Inputs the model's user gives to the free-text and slider widgets.
NameInputs == {"", "Alice"}
SliderInputs == {SliderMin, SliderMax}
CompanyTypeInputs == {CompanyTypeOptions[1], CompanyTypeOptions[4]}

\* The value a widget returns in a run: its stored value, or its default
\* when the previous run did not show it.
Widget(w, key, default) == IF key \in DOMAIN w THEN w[key] ELSE default

\* party<i>_details as built from the widgets of column i.
BuildParty(w, i) ==
    IF Widget(w, i \o "_type", PartyTypes[1]) = "Individual"
    THEN [type |-> PyStr("Individual"),
          name |-> PyStr(Widget(w, i \o "_name", "")),
          residency |-> PyStr(Widget(w, i \o "_residency", ResidencyOptions[1]))]
    ELSE [type |-> PyStr("Company"),
          name |-> PyStr(Widget(w, i \o "_name", "")),
          company_type |-> PyStr(Widget(w, i \o "_company_type", CompanyTypeOptions[1])),
          listed_status |-> PyBool(Widget(w, i \o "_listed", FALSE)),
          regulated |-> PyBool(Widget(w, i \o "_regulated", FALSE))]

\* A section that looks at the type of party 1 only.
RelationshipDetails_by_party1_only(w, party1_type, party2_type) ==
    IF party1_type = "Company"
    THEN [ownership_percentage |-> PyInt(Widget(w, "Ownership Percentage", SliderDefault)),
          voting_rights |-> PyInt(Widget(w, "Voting Rights Percentage", SliderDefault)),
          board_control |-> PyBool(Widget(w, "Board Control", FALSE))]
    ELSE [family_relationship |-> PyStr(Widget(w, "Family Relationship", FamilyOptions[1]))]

\* The "Relationship Details" section: the keys it adds to party1_details.
RelationshipDetails(w, party1_type, party2_type) ==
    IF party1_type = "Company" /\ party2_type = "Company"
    THEN [ownership_percentage |-> PyInt(Widget(w, "Ownership Percentage", SliderDefault)),
          voting_rights |-> PyInt(Widget(w, "Voting Rights Percentage", SliderDefault)),
          board_control |-> PyBool(Widget(w, "Board Control", FALSE))]
    ELSE IF party1_type = "Individual" /\ party2_type = "Individual"
    THEN [family_relationship |-> PyStr(Widget(w, "Family Relationship", FamilyOptions[1]))]
    ELSE EmptyDict

Party1Type(w) == Widget(w, "party1_type", PartyTypes[1])
Party2Type(w) == Widget(w, "party2_type", PartyTypes[1])

\* party1_details and party2_details at the 'Analyze Relationship' button.
Party1Details(w) ==
    RelationshipDetails(w, Party1Type(w), Party2Type(w)) @@ BuildParty(w, "party1")
Party2Details(w) == BuildParty(w, "party2")

\* The widgets a run over widget state w puts on the page.
ColumnKeys(w, i) ==
    {i \o "_type", i \o "_name"} \cup
    (IF Widget(w, i \o "_type", PartyTypes[1]) = "Individual"
     THEN {i \o "_residency"}
     ELSE {i \o "_company_type", i \o "_listed", i \o "_regulated"})

RelationshipKeys(w) ==
    IF Party1Type(w) = "Company" /\ Party2Type(w) = "Company"
    THEN {"Ownership Percentage", "Voting Rights Percentage", "Board Control"}
    ELSE IF Party1Type(w) = "Individual" /\ Party2Type(w) = "Individual"
    THEN {"Family Relationship"}
    ELSE {}

RenderedKeys(w) == ColumnKeys(w, "party1") \cup ColumnKeys(w, "party2") \cup RelationshipKeys(w)

Default(key) ==
    CASE key \in {"party1_type", "party2_type"} -> PartyTypes[1]
      [] key \in {"party1_name", "party2_name"} -> ""
      [] key \in {"party1_residency", "party2_residency"} -> ResidencyOptions[1]
      [] key \in {"party1_company_type", "party2_company_type"} -> CompanyTypeOptions[1]
      [] key \in {"Ownership Percentage", "Voting Rights Percentage"} -> SliderDefault
      [] key = "Family Relationship" -> FamilyOptions[1]
      [] OTHER -> FALSE

Options(key) ==
    CASE key \in {"party1_type", "party2_type"} -> Range(PartyTypes)
      [] key \in {"party1_name", "party2_name"} -> NameInputs
      [] key \in {"party1_residency", "party2_residency"} -> Range(ResidencyOptions)
      [] key \in {"party1_company_type", "party2_company_type"} ->
            CompanyTypeInputs \cap Range(CompanyTypeOptions)
      [] key \in {"Ownership Percentage", "Voting Rights Percentage"} ->
            {v \in SliderInputs : SliderMin <= v /\ v <= SliderMax}
      [] key = "Family Relationship" -> Range(FamilyOptions)
      [] OTHER -> BOOLEAN

\* Widget state after a run: the shown widgets with their values; the
\* state of a widget the run did not show is dropped.
Session(w) == [k \in RenderedKeys(w) |-> Widget(w, k, Default(k))]

\* The result display of main(): each step writes one element; the field
\* steps read the field as an attribute of result.
DisplaySteps ==
    << [kind |-> "markdown", text |-> "### Assessment", attr |-> ""],
       [kind |-> "write", text |-> "", attr |-> "assessment"],
       [kind |-> "write", text |-> "**Relationship Type:** ", attr |-> "relationship_type"],
       [kind |-> "write", text |-> "**Basis:** ", attr |-> "basis"],
       [kind |-> "markdown", text |-> "### Risk and Documentation", attr |-> ""],
       [kind |-> "write", text |-> "**Risk Level:** ", attr |-> "risk_level"],
       [kind |-> "markdown", text |-> "**Required Documentation:**", attr |-> ""],
       [kind |-> "write", text |-> "", attr |-> "documentation"] >>

\* Attribute names of a Python dict (its methods); its keys are not among them.
DictAttributes == {"keys", "values", "items", "get", "update", "pop", "copy", "clear"}

HasAttr(obj, name) == obj.pytype = "dict" /\ name \in DictAttributes

RECURSIVE DisplayFrom(_, _, _)
DisplayFrom(obj, i, acc) ==
    IF i > Len(DisplaySteps) THEN [status |-> "completed", shown |-> acc]
    ELSE LET step == DisplaySteps[i] IN
         IF step.attr = ""
         THEN DisplayFrom(obj, i + 1, Append(acc, Write(step.kind, step.text)))
         ELSE IF HasAttr(obj, step.attr)
         THEN DisplayFrom(obj, i + 1, Append(acc, [kind |-> step.kind, text |-> step.text, detail |-> step.attr]))
         ELSE [status |-> "exception",
               shown |-> Append(acc, [kind |-> "exception", text |-> "AttributeError", detail |-> step.attr])]

Display(obj) == DisplayFrom(obj, 1, <<>>)

\* main()'s guard before the assessment.
NamesGiven(p1, p2) == Truthy(Get(p1, "name")) /\ Truthy(Get(p2, "name"))

\* ---------------------------------------------------------------- actions
Init ==
    /\ has_key \in BOOLEAN
    /\ debug \in BOOLEAN
    /\ llm_cached = FALSE
    /\ session = Session(EmptyDict)
    /\ party1_details = Party1Details(EmptyDict)
    /\ party2_details = Party2Details(EmptyDict)
    /\ invoked = "none"
    /\ args = <<>>
    /\ trace = <<>>
    /\ sent_prompt = None
    /\ response = None
    /\ result = None
    /\ shown = <<>>
    /\ run_status = "completed"

\* A script run in which neither button is pressed: main() rebuilds both
\* dicts from the widgets and shows no result.
PlainRun(w) ==
    /\ session' = Session(w)
    /\ party1_details' = Party1Details(w)
    /\ party2_details' = Party2Details(w)
    /\ invoked' = "none"
    /\ args' = <<>>
    /\ trace' = <<>>
    /\ sent_prompt' = None
    /\ response' = None
    /\ result' = None
    /\ shown' = <<>>
    /\ run_status' = "completed"
    /\ UNCHANGED <<has_key, debug, llm_cached>>

\* The user changes one widget of the page; Streamlit reruns the script.
Interact ==
    \E key \in DOMAIN session :
        \E v \in Options(key) :
            /\ v # session[key]
            /\ PlainRun([session EXCEPT ![key] = v])

\* The user reruns the page without touching a widget.
Reload == PlainRun(session)

\* 'Test API Connection' in the debug expander, then the rest of main().
ClickTest ==
    /\ debug
    /\ \E env \in TestEnvs :
        \E llm \in {initialize_llm(env.ctor_ok)} :
        /\ invoked' = "none"
        /\ args' = <<>>
        /\ sent_prompt' = None
        /\ response' = None
        /\ result' = None
        /\ llm_cached' = llm.cached
        /\ UNCHANGED <<has_key, debug>>
        /\ IF llm.status = "stop"
           THEN /\ trace' = <<"initialize_llm">>
                /\ shown' = llm.shown
                /\ run_status' = "stopped"
                /\ session' = EmptyDict
                /\ party1_details' = EmptyDict
                /\ party2_details' = EmptyDict
           ELSE /\ trace' = <<"initialize_llm", "predict">>
                /\ shown' = IF env.gateway = "ok"
                            THEN <<Write("success", "API Connection Successful!")>>
                            ELSE <<Error("API Connection Failed: ", env.gateway)>>
                /\ run_status' = "completed"
                /\ session' = Session(session)
                /\ party1_details' = Party1Details(session)
                /\ party2_details' = Party2Details(session)

\* 'Analyze Relationship': the run rebuilds the dicts, checks the names,
\* calls process_relationship_assessment and displays a truthy result.
ClickAnalyze ==
    /\ "party1_type" \in DOMAIN session
    /\ session' = Session(session)
    /\ party1_details' = Party1Details(session)
    /\ party2_details' = Party2Details(session)
    /\ UNCHANGED <<has_key, debug>>
    /\ IF ~NamesGiven(party1_details', party2_details')
       THEN /\ invoked' = "none"
            /\ args' = <<>>
            /\ trace' = <<>>
            /\ sent_prompt' = None
            /\ response' = None
            /\ result' = None
            /\ shown' = <<Error("Please fill in all required fields", "")>>
            /\ run_status' = "completed"
            /\ UNCHANGED llm_cached
       ELSE \E env \in Envs :
            \E r \in {process_relationship_assessment(party1_details', party2_details', env)} :
            \E d \in {IF r.status = "stopped" THEN [status |-> "stopped", shown |-> <<>>]
                      ELSE IF Truthy(r.ret) THEN Display(r.ret)
                      ELSE [status |-> "completed", shown |-> <<>>]} :
                /\ invoked' = "main"
                /\ args' = <<party1_details', party2_details'>>
                /\ trace' = r.trace
                /\ sent_prompt' = r.sent
                /\ response' = r.response
                /\ result' = r.ret
                /\ llm_cached' = r.cached
                /\ shown' = r.shown \o d.shown
                /\ run_status' = d.status

\* process_relationship_assessment called by other code than main(), with
\* dicts main() would not build: an empty name, a percentage outside the
\* slider's range, a value json.dumps rejects.
DirectPercentages == {SliderMin - 1, SliderMax, SliderMax + 1}

DirectIndividual(name) ==
    [type |-> PyStr("Individual"), name |-> PyStr(name), residency |-> PyStr(ResidencyOptions[1])]

DirectCompany(name) ==
    [type |-> PyStr("Company"), name |-> PyStr(name), company_type |-> PyStr(CompanyTypeOptions[1]),
     listed_status |-> PyBool(FALSE), regulated |-> PyBool(FALSE)]

DirectArgs ==
    { <<DirectIndividual(n1), DirectIndividual(n2)>> : n1 \in NameInputs, n2 \in NameInputs }
    \cup { <<[ownership_percentage |-> PyInt(o), voting_rights |-> PyInt(v), board_control |-> PyBool(TRUE)]
              @@ DirectCompany("Alice"), DirectCompany("Bob")>> : o \in DirectPercentages, v \in DirectPercentages }
    \cup { <<[DirectIndividual("Alice") EXCEPT !.residency = NonSerializable], DirectIndividual("Bob")>> }

DirectInvoke ==
    /\ session = Session(EmptyDict)
    /\ \E a \in DirectArgs, env \in Envs :
        \E r \in {process_relationship_assessment(a[1], a[2], env)} :
        /\ invoked' = "direct"
        /\ args' = a
        /\ trace' = r.trace
        /\ sent_prompt' = r.sent
        /\ response' = r.response
        /\ result' = r.ret
        /\ llm_cached' = r.cached
        /\ shown' = r.shown
        /\ run_status' = IF r.status = "stopped" THEN "stopped" ELSE "completed"
        /\ UNCHANGED <<has_key, debug, session, party1_details, party2_details>>

Next ==
    \/ Interact
    \/ Reload
    \/ ClickTest
    \/ ClickAnalyze
    \/ DirectInvoke

Spec == Init /\ [][Next]_vars

\* ------------------------------------------------------------- properties
Count(seq, x) == Cardinality({i \in DOMAIN seq : seq[i] = x})
Invoked == invoked # "none"
EmptyName(d) == ~Truthy(Get(d, "name"))

\* The gateway call of the latest invocation was made and raised.
GatewayFailed == Invoked /\ "predict_messages" \in Range(trace) /\ response = None

\* The one element the except clause of process_relationship_assessment shows.
OneProcessingError ==
    /\ Len(shown) = 1
    /\ shown[1].kind = "error"
    /\ shown[1].text = "Error in processing assessment: "

LacksField(t) ==
    \/ t.body # "object"
    \/ \E f \in Range(Fields) : \A i \in DOMAIN t.members : t.members[i][1] # f

IsFiveFieldResult(v) == v.pytype = "dict" /\ Range(Fields) \subseteq DOMAIN v.items

AttributeKeys == {"ownership_percentage", "voting_rights", "board_control", "family_relationship"}

ExpectedAttributes(t1, t2) ==
    IF t1 = "Company" /\ t2 = "Company"
    THEN {"ownership_percentage", "voting_rights", "board_control"}
    ELSE IF t1 = "Individual" /\ t2 = "Individual"
    THEN {"family_relationship"}
    ELSE {}

OutOfRange(d) ==
    \E k \in {"ownership_percentage", "voting_rights"} \cap DOMAIN d :
        d[k].int < SliderMin \/ d[k].int > SliderMax

\* C1: whenever the assessment is invoked with party details in which a name
\* is empty, no prompt is formatted, nothing is sent to the model and no
\* result comes back - whoever the caller is.
C1_EmptyNameNeverReachesModel ==
    (Invoked /\ (EmptyName(args[1]) \/ EmptyName(args[2]))) =>
        /\ sent_prompt = None
        /\ "format_messages" \notin Range(trace)
        /\ "predict_messages" \notin Range(trace)
        /\ result = None

\* C2: while PPLX_API_KEY is missing no call to the model is ever made (by
\* predict_messages or by the connection test), no client is cached, and
\* every invocation of the assessment ends at initialize_llm with the
\* missing-key error and a stopped run.
C2_NoNetworkCallWithoutCredential ==
    ~has_key =>
        /\ \A i \in DOMAIN trace : trace[i] \notin {"predict_messages", "predict"}
        /\ sent_prompt = None
        /\ response = None
        /\ ~llm_cached
        /\ Invoked =>
            /\ run_status = "stopped"
            /\ result = None
            /\ trace = <<"initialize_llm">>
            /\ shown = <<Error("Perplexity API key not found. Please check your secrets configuration.", "")>>

C2_Witness == ~has_key /\ Invoked /\ run_status = "stopped"

C4_ExactlyOneGatewayCall ==
    Invoked =>
        /\ Count(trace, "predict_messages") = (IF "format_messages" \in Range(trace) THEN 1 ELSE 0)
        /\ "predict_messages" \in Range(trace) => sent_prompt = format_messages(args[1], args[2])
        /\ "parse" \in Range(trace) => response \in Replies
        /\ result # None => (response \in Replies /\ ~LacksField(response))

C4_Witness ==
    /\ Invoked
    /\ Count(trace, "predict_messages") = 1
    /\ result = None
    /\ OneProcessingError

C6_IncompleteReplyIsParseError ==
    (Invoked /\ response \in Replies /\ LacksField(response)) =>
        /\ result = None
        /\ OneProcessingError
        /\ trace = Pipeline

C6_Witness ==
    /\ Invoked
    /\ response \in Replies
    /\ response.body = "object"
    /\ {response.members[i][1] : i \in DOMAIN response.members} \cap Range(Fields)
           = Range(Fields) \ {"risk_level"}
    /\ result = None

\* C7: a reply whose payload has all five fields parses: the invocation
\* returns a dict in which every required field has exactly the value the
\* payload gives it, a risk_level outside HIGH, MEDIUM, LOW included.
C7_CompleteReplyReturnedVerbatim ==
    (Invoked /\ response \in Replies /\ ~LacksField(response)) =>
        /\ result.pytype = "dict"
        /\ \A i \in DOMAIN response.members :
              response.members[i][1] \in Range(Fields) =>
                  /\ response.members[i][1] \in DOMAIN result.items
                  /\ result.items[response.members[i][1]] = response.members[i][2]

C7_Witness ==
    /\ Invoked
    /\ result.pytype = "dict"
    /\ result.items["risk_level"] = "UNKNOWN"
    /\ result.items["assessment"] = "text of assessment"

\* C8: in every run the relationship keys of party1_details are those of
\* the current pair of party types (three for Company-Company, the family
\* relationship with a declared option for Individual-Individual, none for
\* a mixed pair), party2_details has none, and the prompt main() sends
\* carries exactly these.
C8_AttributesFollowPartyTypes ==
    /\ "type" \in DOMAIN party1_details =>
        /\ DOMAIN party1_details \cap AttributeKeys
              = ExpectedAttributes(party1_details["type"].str, party2_details["type"].str)
        /\ DOMAIN party2_details \cap AttributeKeys = {}
        /\ "family_relationship" \in DOMAIN party1_details =>
              party1_details["family_relationship"].str \in Range(FamilyOptions)
    /\ (invoked = "main" /\ sent_prompt # None) =>
        /\ args = <<party1_details, party2_details>>
        /\ DOMAIN sent_prompt.human.party1 \cap AttributeKeys
              = ExpectedAttributes(party1_details["type"].str, party2_details["type"].str)
        /\ DOMAIN sent_prompt.human.party2 \cap AttributeKeys = {}

C8_Witness ==
    /\ invoked = "main"
    /\ sent_prompt # None
    /\ party1_details["type"].str = "Company"
    /\ party2_details["type"].str = "Individual"

\* C9: whenever the assessment is invoked with an ownership or voting
\* percentage outside 0..100, no prompt is formatted, nothing is sent to the
\* model and no result comes back.
C9_OutOfRangePercentageNeverReachesModel ==
    (Invoked /\ (OutOfRange(args[1]) \/ OutOfRange(args[2]))) =>
        /\ sent_prompt = None
        /\ "format_messages" \notin Range(trace)
        /\ "predict_messages" \notin Range(trace)
        /\ result = None

\* C10: when main() gets a parsed result the display completes and shows
\* all five fields; when it gets None, only the one error message is shown.
C10_DisplayShowsAllFields ==
    (invoked = "main" /\ run_status # "stopped") =>
        /\ result # None =>
            /\ run_status = "completed"
            /\ \A f \in Range(Fields) :
                  \E i \in DOMAIN shown : shown[i].kind = "write" /\ shown[i].detail = f
        /\ result = None => (Len(shown) = 1 /\ shown[1].kind = "error")

====
